---- MODULE Spec2Model ----
(***************************************************************************)
(* SimpleVector<Type> over ArrayPtr<Type>.                                 *)
(*                                                                         *)
(* The heap is a set of numbered blocks; a raw pointer is a block number   *)
(* (Null for nullptr) and an iterator/reference is a pair <<block, index>>.*)
(* Every element access goes through the heap, so a vector whose           *)
(* capacity_ disagrees with the block it holds, or two owners of one block,*)
(* are states the model can be in.  An access outside the allocated block  *)
(* is undefined behaviour: the step that performs it sets ub and either    *)
(* aborts (no effect) or completes with the bad stores dropped.            *)
(***************************************************************************)
EXTENDS Integers, Sequences, FiniteSets, TLC

\* ---------------------------------------------------------------- bounds
MaxCap == 3          \* largest capacity a vector of Spec may take
MaxVal == 1          \* element values of Spec are 0..MaxVal
MaxBlocks == 3       \* heap blocks that can be allocated at one time
MaxPairCap == 2      \* largest capacity a vector of SpecPair may take
MaxLeaks == 1        \* blocks that may be lost before the program stops losing more
MaxScenarioCap == 6  \* largest capacity the vector of SpecScenario may take

\* ------------------------------------------------------------- constants
Null == 0            \* nullptr
DefaultValue == 0    \* Type()

Values == 0..MaxVal
\* What a slot holds that no value was stored into since new Type[n], or whose
\* element was moved from: no value the program may rely on, and none of Values.
Unspecified == -1
Cells == Values \cup {Unspecified}
Blocks == 1..MaxBlocks
Objs == {"a", "b"}
Ptrs == {"p", "q"}

VARIABLES vec, heap, leaked, call, ub, ptr
vars == <<vec, heap, leaked, call, ub, ptr>>

\* ------------------------------------------------------------------ heap
FreeBlock == [live |-> FALSE, cells |-> <<>>]

EmptyHeap == [h |-> [b \in Blocks |-> FreeBlock], ok |-> TRUE, fits |-> TRUE]

FreeIds(mem) == {b \in Blocks : ~mem.h[b].live}

\* number of slots allocated behind raw pointer p
Allocated(h, p) == IF p = Null \/ ~h[p].live THEN 0 ELSE Len(h[p].cells)

Valid(mem, p, i) == p # Null /\ i >= 0 /\ i < Allocated(mem.h, p)

\* p[i] = x
StoreVal(mem, p, i, x) ==
    IF Valid(mem, p, i)
    THEN [mem EXCEPT !.h[p].cells[i + 1] = x]
    ELSE [mem EXCEPT !.ok = FALSE]

\* the value read by p[i]
LoadVal(mem, p, i) == IF Valid(mem, p, i) THEN mem.h[p].cells[i + 1] ELSE Unspecified

\* dp[di] = sp[si]
Assign(mem, dp, di, sp, si) ==
    IF Valid(mem, sp, si)
    THEN StoreVal(mem, dp, di, LoadVal(mem, sp, si))
    ELSE [mem EXCEPT !.ok = FALSE]

\* dp[di] = std::move(sp[si]) : the moved-from element is left valid but unspecified
MoveAssign(mem, dp, di, sp, si) ==
    LET m1 == Assign(mem, dp, di, sp, si)
    IN  IF m1.ok THEN StoreVal(m1, sp, si, Unspecified) ELSE m1

\* new Type[size]
NewArray(mem, size) ==
    IF FreeIds(mem) = {}
    THEN [mem |-> [mem EXCEPT !.fits = FALSE], ptr |-> Null]
    ELSE LET b == CHOOSE x \in FreeIds(mem) : \A y \in FreeIds(mem) : x <= y
         IN  [mem |-> [mem EXCEPT !.h[b] = [live |-> TRUE,
                                             cells |-> [i \in 1..size |-> Unspecified]]],
              ptr |-> b]

\* delete[] p
DeleteArray(mem, p) ==
    IF p = Null THEN mem
    ELSE IF mem.h[p].live THEN [mem EXCEPT !.h[p] = FreeBlock]
    ELSE [mem EXCEPT !.ok = FALSE]

\* ------------------------------------------------------- <algorithm>
RECURSIVE Fill(_, _, _, _, _)
\* std::fill / std::generate of [p+first, p+last) with x
Fill(mem, p, first, last, x) ==
    IF first >= last THEN mem
    ELSE Fill(StoreVal(mem, p, first, x), p, first + 1, last, x)

RECURSIVE Copy(_, _, _, _, _, _)
\* std::copy of [sp+first, sp+last) to dp+dfirst, front to back
Copy(mem, sp, first, last, dp, dfirst) ==
    IF first >= last THEN mem
    ELSE Copy(Assign(mem, dp, dfirst, sp, first), sp, first + 1, last, dp, dfirst + 1)

RECURSIVE Move(_, _, _, _, _, _)
\* std::move of [sp+first, sp+last) to dp+dfirst, front to back
Move(mem, sp, first, last, dp, dfirst) ==
    IF first >= last THEN mem
    ELSE Move(MoveAssign(mem, dp, dfirst, sp, first),
              sp, first + 1, last, dp, dfirst + 1)

RECURSIVE CopyBackward(_, _, _, _, _, _)
\* std::copy_backward of [sp+first, sp+last) to the range ending at dp+dlast
CopyBackward(mem, sp, first, last, dp, dlast) ==
    IF first >= last THEN mem
    ELSE CopyBackward(Assign(mem, dp, dlast - 1, sp, last - 1),
                      sp, first, last - 1, dp, dlast - 1)

RECURSIVE MoveBackward(_, _, _, _, _, _)
\* std::move_backward of [sp+first, sp+last) to the range ending at dp+dlast
MoveBackward(mem, sp, first, last, dp, dlast) ==
    IF first >= last THEN mem
    ELSE MoveBackward(MoveAssign(mem, dp, dlast - 1, sp, last - 1),
                      sp, first, last - 1, dp, dlast - 1)

\* --------------------------------------------------------------- ArrayPtr
\* ArrayPtr(size_t size)
ArrayPtrCtor(mem, size) ==
    IF size = 0 THEN [mem |-> mem, ptr |-> Null] ELSE NewArray(mem, size)

\* ~ArrayPtr()
ArrayPtrDtor(mem, raw_ptr_) == DeleteArray(mem, raw_ptr_)

\* ArrayPtrMove with the bug of leaving other.raw_ptr_ as it was
ArrayPtrMoveKeepsSource(this_ptr, other_ptr) == <<other_ptr, other_ptr>>

\* ArrayPtr(ArrayPtr&& other) and both operator= : the pair <<this, other>> after
ArrayPtrMove(this_ptr, other_ptr) == <<other_ptr, Null>>

\* ArrayPtr::swap with the bug of not keeping the previous value of raw_ptr_
ArrayPtrSwapLosesPrevious(this_ptr, other_ptr) == <<other_ptr, other_ptr>>

\* ArrayPtr::swap : the pair <<this, other>> after
ArrayPtrSwap(this_ptr, other_ptr) == <<other_ptr, this_ptr>>

\* Type* Release() : the pair <<raw_ptr_ after, result>>
ArrayPtrRelease(raw_ptr_) == <<Null, raw_ptr_>>

\* an ArrayPtr that is not constructed
NoArrayPtr == [alive |-> FALSE, raw_ptr_ |-> Null]

\* ----------------------------------------------------------- SimpleVector
Mem(h) == [h |-> h, ok |-> TRUE, fits |-> TRUE]

NoRet == [kind |-> "none", ptr |-> Null, idx |-> 0]
Ref(p, i) == [kind |-> "ref", ptr |-> p, idx |-> i]
OutOfRange == [kind |-> "throw", ptr |-> Null, idx |-> 0]

Res(o, mem, ret) == [o |-> o, mem |-> mem, ret |-> ret]
Res2(o, other, mem) == [o |-> o, other |-> other, mem |-> mem, ret |-> NoRet]

\* an object that is not constructed (before its constructor, after its destructor)
NoVector == [alive |-> FALSE, size_ |-> 0, capacity_ |-> 0, data_ |-> Null]

\* SimpleVector() and the default member initialisers
DefaultVector == [alive |-> TRUE, size_ |-> 0, capacity_ |-> 0, data_ |-> Null]

\* CtorSizeValue with the bug of filling with Type() as SimpleVector(size_t) does
CtorSizeValueFillsDefault(mem, size, value) ==
    LET d == ArrayPtrCtor(mem, size)
        o == [DefaultVector EXCEPT !.size_ = size, !.capacity_ = size, !.data_ = d.ptr]
    IN  Res(o, Fill(d.mem, o.data_, 0, o.size_, DefaultValue), NoRet)

\* SimpleVector(size_t size, const Type& value)
CtorSizeValue(mem, size, value) ==
    LET d == ArrayPtrCtor(mem, size)
        o == [DefaultVector EXCEPT !.size_ = size, !.capacity_ = size, !.data_ = d.ptr]
    IN  Res(o, Fill(d.mem, o.data_, 0, o.size_, value), NoRet)

\* SimpleVector(size_t size)
CtorSize(mem, size) ==
    LET d == ArrayPtrCtor(mem, size)
        o == [DefaultVector EXCEPT !.size_ = size, !.capacity_ = size, !.data_ = d.ptr]
    IN  Res(o, Fill(d.mem, o.data_, 0, o.size_, DefaultValue), NoRet)

RECURSIVE CopyInit(_, _, _, _)
\* std::copy(init.begin(), init.end(), p) from element k of the list on
CopyInit(mem, init, k, p) ==
    IF k > Len(init) THEN mem
    ELSE CopyInit(StoreVal(mem, p, k - 1, init[k]), init, k + 1, p)

\* SimpleVector(std::initializer_list<Type> init)
CtorInit(mem, init) ==
    LET d == ArrayPtrCtor(mem, Len(init))
        o == [DefaultVector EXCEPT !.size_ = Len(init), !.capacity_ = Len(init),
                                   !.data_ = d.ptr]
    IN  Res(o, CopyInit(d.mem, init, 1, o.data_), NoRet)

\* IncreasedCapacity with the bug of growing by one slot
IncreasedCapacityByOne(capacity_) == capacity_ + 1

\* capacity_ == 0 ? 1 : capacity_ * 2
IncreasedCapacity(capacity_) == IF capacity_ = 0 THEN 1 ELSE capacity_ * 2

\* Reserve with the bug of not copying the elements to the new block
ReserveDropsElements(o, mem, reserved_capacity) ==
    IF reserved_capacity <= o.capacity_ THEN Res(o, mem, NoRet)
    ELSE LET nd == ArrayPtrCtor(mem, reserved_capacity)
             m1 == Fill(nd.mem, nd.ptr, 0, o.capacity_, DefaultValue)
             sw == ArrayPtrSwap(o.data_, nd.ptr)
             m3 == ArrayPtrDtor(m1, sw[2])
         IN  Res([o EXCEPT !.data_ = sw[1], !.capacity_ = reserved_capacity], m3, NoRet)

\* void Reserve(size_t reserved_capacity)
Reserve(o, mem, reserved_capacity) ==
    IF reserved_capacity <= o.capacity_ THEN Res(o, mem, NoRet)
    ELSE LET nd == ArrayPtrCtor(mem, reserved_capacity)
             m1 == Fill(nd.mem, nd.ptr, 0, o.capacity_, DefaultValue)
             m2 == Copy(m1, o.data_, 0, o.size_, nd.ptr, 0)
             sw == ArrayPtrSwap(o.data_, nd.ptr)
             m3 == ArrayPtrDtor(m2, sw[2])
         IN  Res([o EXCEPT !.data_ = sw[1], !.capacity_ = reserved_capacity], m3, NoRet)

\* SimpleVector(ReserveProxyObj obj)
CtorReserve(mem, obj_capacity) ==
    Reserve([DefaultVector EXCEPT !.capacity_ = obj_capacity], mem, obj_capacity)

\* swap with the bug of not exchanging capacity_
SwapKeepsCapacity(o, other, mem) ==
    LET sw == ArrayPtrSwap(o.data_, other.data_)
    IN  Res2([o EXCEPT !.data_ = sw[1], !.size_ = other.size_],
             [other EXCEPT !.data_ = sw[2], !.size_ = o.size_],
             mem)

\* void swap(SimpleVector& other)
Swap(o, other, mem) ==
    LET sw == ArrayPtrSwap(o.data_, other.data_)
    IN  Res2([o EXCEPT !.data_ = sw[1], !.size_ = other.size_,
                       !.capacity_ = other.capacity_],
             [other EXCEPT !.data_ = sw[2], !.size_ = o.size_,
                           !.capacity_ = o.capacity_],
             mem)

\* ~SimpleVector()
Dtor(o, mem) == Res(NoVector, ArrayPtrDtor(mem, o.data_), NoRet)

\* the copy constructor with the bug of sizing the copy by other's capacity
CopyCtorByCapacity(other, mem) ==
    LET capacity == other.capacity_
        temp == CtorSize(mem, capacity)
        m1 == Copy(temp.mem, other.data_, 0, other.size_, temp.o.data_, 0)
        sw == Swap(DefaultVector, temp.o, m1)
    IN  Res2(sw.o, other, Dtor(sw.other, sw.mem).mem)

\* SimpleVector(SimpleVector& other)
CopyCtor(other, mem) ==
    LET capacity == other.size_
        temp == CtorSize(mem, capacity)
        m1 == Copy(temp.mem, other.data_, 0, other.size_, temp.o.data_, 0)
        sw == Swap(DefaultVector, temp.o, m1)
    IN  Res2(sw.o, other, Dtor(sw.other, sw.mem).mem)

\* SimpleVector(SimpleVector&& other)
MoveCtor(other, mem) ==
    LET mp == ArrayPtrMove(Null, other.data_)
    IN  Res2([DefaultVector EXCEPT !.size_ = other.size_,
                                   !.capacity_ = other.capacity_, !.data_ = mp[1]],
             [other EXCEPT !.size_ = 0, !.capacity_ = 0, !.data_ = mp[2]],
             mem)

\* SimpleVector& operator=(SimpleVector&& other); same: this == &other
MoveAssignVector(o, other, mem, same) ==
    LET mp == ArrayPtrMove(o.data_, other.data_)
    IN  IF same THEN Res2(o, other, mem)
        ELSE Res2([o EXCEPT !.size_ = other.size_, !.capacity_ = other.capacity_,
                            !.data_ = mp[1]],
                  [other EXCEPT !.size_ = 0, !.capacity_ = 0, !.data_ = mp[2]],
                  mem)

\* SimpleVector& operator=(SimpleVector& other); same: this == &other
CopyAssignVector(o, other, mem, same) ==
    LET temp == CopyCtor(other, mem)
        sw == Swap(o, temp.o, temp.mem)
    IN  IF same THEN Res2(o, other, mem)
        ELSE Res2(sw.o, other, Dtor(sw.other, sw.mem).mem)

\* Type& operator[](size_t index)
Index(o, index) == Ref(o.data_, index)

\* At with the bug of checking the index against capacity_
AtChecksCapacity(o, index) ==
    IF index >= o.capacity_ THEN OutOfRange ELSE Ref(o.data_, index)

\* Type& At(size_t index)
At(o, index) == IF index >= o.size_ THEN OutOfRange ELSE Ref(o.data_, index)

\* Clear with the bug of giving the buffer up as well
ClearDropsBuffer(o, mem) ==
    Res([o EXCEPT !.size_ = 0, !.capacity_ = 0, !.data_ = Null],
        ArrayPtrDtor(mem, o.data_), NoRet)

\* void Clear()
Clear(o, mem) == Res([o EXCEPT !.size_ = 0], mem, NoRet)

\* void PopBack()
PopBack(o, mem) == Res([o EXCEPT !.size_ = o.size_ - 1], mem, NoRet)

\* void Resize(size_t new_size)
Resize(o, mem, new_size) ==
    LET grow == new_size > o.capacity_
        temp == ArrayPtrCtor(mem, new_size)
        m1 == Fill(temp.mem, temp.ptr, 0, new_size, DefaultValue)
        m2 == Move(m1, o.data_, 0, o.size_, temp.ptr, 0)
        sw == ArrayPtrSwap(o.data_, temp.ptr)
        m3 == ArrayPtrDtor(m2, sw[2])
        o1 == IF grow THEN [o EXCEPT !.data_ = sw[1], !.capacity_ = new_size] ELSE o
        m4 == IF grow THEN m3 ELSE mem
        m5 == IF new_size > o1.size_
              THEN Fill(m4, o1.data_, o1.size_, new_size, DefaultValue)
              ELSE m4
    IN  Res([o1 EXCEPT !.size_ = new_size], m5, NoRet)

\* void PushBack(const Type& element)
PushBack(o, mem, element) ==
    LET grow == o.size_ >= o.capacity_
        increased_capacity == IncreasedCapacity(o.capacity_)
        temp == ArrayPtrCtor(mem, increased_capacity)
        m1 == Fill(temp.mem, temp.ptr, 0, increased_capacity, DefaultValue)
        m2 == Copy(m1, o.data_, 0, o.size_, temp.ptr, 0)
        sw == ArrayPtrSwap(o.data_, temp.ptr)
        m3 == ArrayPtrDtor(m2, sw[2])
        o1 == IF grow THEN [o EXCEPT !.data_ = sw[1], !.capacity_ = increased_capacity]
              ELSE o
        m4 == IF grow THEN m3 ELSE mem
    IN  Res([o1 EXCEPT !.size_ = o1.size_ + 1],
            StoreVal(m4, o1.data_, o1.size_, element), NoRet)

\* void PushBack(Type&& element)
PushBackMove(o, mem, element) ==
    LET grow == o.size_ >= o.capacity_
        increased_capacity == IncreasedCapacity(o.capacity_)
        temp == ArrayPtrCtor(mem, increased_capacity)
        m1 == Fill(temp.mem, temp.ptr, 0, increased_capacity, DefaultValue)
        m2 == Move(m1, o.data_, 0, o.size_, temp.ptr, 0)
        sw == ArrayPtrSwap(o.data_, temp.ptr)
        m3 == ArrayPtrDtor(m2, sw[2])
        o1 == IF grow THEN [o EXCEPT !.data_ = sw[1], !.capacity_ = increased_capacity]
              ELSE o
        m4 == IF grow THEN m3 ELSE mem
    IN  Res([o1 EXCEPT !.size_ = o1.size_ + 1],
            StoreVal(m4, o1.data_, o1.size_, element), NoRet)

RECURSIVE EraseLoop(_, _, _, _)
\* for (auto begin = pos; begin != end() - 1; ++begin) *begin = std::move(*(begin + 1))
EraseLoop(mem, p, begin, last) ==
    IF begin = last THEN mem
    ELSE EraseLoop(MoveAssign(mem, p, begin, p, begin + 1), p, begin + 1, last)

RECURSIVE EraseLoopMoves(_, _)
\* the number of times the body of Erase's loop runs from begin until end() - 1
EraseLoopMoves(begin, last) ==
    IF begin = last THEN 0 ELSE 1 + EraseLoopMoves(begin + 1, last)

\* Erase with the bug of not decrementing size_
EraseKeepsSize(o, mem, removing_index) ==
    LET m1 == EraseLoop(mem, o.data_, removing_index, o.size_ - 1)
    IN  Res(o, m1, Ref(o.data_, removing_index))

\* Iterator Erase(Iterator pos), pos = data_.Get() + removing_index
Erase(o, mem, removing_index) ==
    LET m1 == EraseLoop(mem, o.data_, removing_index, o.size_ - 1)
    IN  Res([o EXCEPT !.size_ = o.size_ - 1], m1, Ref(o.data_, removing_index))

\* Insert with the bug of shifting the tail front to back on the in-place path
InsertCopiesForward(o, mem, inserting_index, element) ==
    LET grow == o.size_ >= o.capacity_
        increased_capacity == IncreasedCapacity(o.capacity_)
        temp == ArrayPtrCtor(mem, increased_capacity)
        m1 == Fill(temp.mem, temp.ptr, 0, increased_capacity, DefaultValue)
        m2 == Copy(m1, o.data_, 0, inserting_index, temp.ptr, 0)
        m3 == StoreVal(m2, temp.ptr, inserting_index, element)
        m4 == Copy(m3, o.data_, inserting_index, o.size_, temp.ptr, inserting_index + 1)
        sw == ArrayPtrSwap(o.data_, temp.ptr)
        m5 == ArrayPtrDtor(m4, sw[2])
        n1 == Copy(mem, o.data_, inserting_index, o.size_, o.data_, inserting_index + 1)
        n2 == StoreVal(n1, o.data_, inserting_index, element)
        o1 == IF grow THEN [o EXCEPT !.data_ = sw[1], !.capacity_ = increased_capacity]
              ELSE o
    IN  Res([o1 EXCEPT !.size_ = o1.size_ + 1], IF grow THEN m5 ELSE n2,
            Ref(o1.data_, inserting_index))

\* Iterator Insert(Iterator pos, const Type& element), pos = data_.Get() + inserting_index
Insert(o, mem, inserting_index, element) ==
    LET grow == o.size_ >= o.capacity_
        increased_capacity == IncreasedCapacity(o.capacity_)
        temp == ArrayPtrCtor(mem, increased_capacity)
        m1 == Fill(temp.mem, temp.ptr, 0, increased_capacity, DefaultValue)
        m2 == Copy(m1, o.data_, 0, inserting_index, temp.ptr, 0)
        m3 == StoreVal(m2, temp.ptr, inserting_index, element)
        m4 == Copy(m3, o.data_, inserting_index, o.size_, temp.ptr, inserting_index + 1)
        sw == ArrayPtrSwap(o.data_, temp.ptr)
        m5 == ArrayPtrDtor(m4, sw[2])
        n1 == CopyBackward(mem, o.data_, inserting_index, o.size_, o.data_, o.size_ + 1)
        n2 == StoreVal(n1, o.data_, inserting_index, element)
        o1 == IF grow THEN [o EXCEPT !.data_ = sw[1], !.capacity_ = increased_capacity]
              ELSE o
    IN  Res([o1 EXCEPT !.size_ = o1.size_ + 1], IF grow THEN m5 ELSE n2,
            Ref(o1.data_, inserting_index))

\* Iterator Insert(Iterator pos, Type&& element), pos = data_.Get() + inserting_index
InsertMove(o, mem, inserting_index, element) ==
    LET grow == o.size_ >= o.capacity_
        increased_capacity == IncreasedCapacity(o.capacity_)
        temp == ArrayPtrCtor(mem, increased_capacity)
        m1 == Fill(temp.mem, temp.ptr, 0, increased_capacity, DefaultValue)
        m2 == Move(m1, o.data_, 0, inserting_index, temp.ptr, 0)
        m3 == StoreVal(m2, temp.ptr, inserting_index, element)
        m4 == Move(m3, o.data_, inserting_index, o.size_, temp.ptr,
                   inserting_index + 1)
        sw == ArrayPtrSwap(o.data_, temp.ptr)
        m5 == ArrayPtrDtor(m4, sw[2])
        n1 == MoveBackward(mem, o.data_, inserting_index, o.size_, o.data_,
                           o.size_ + 1)
        n2 == StoreVal(n1, o.data_, inserting_index, element)
        o1 == IF grow THEN [o EXCEPT !.data_ = sw[1], !.capacity_ = increased_capacity]
              ELSE o
    IN  Res([o1 EXCEPT !.size_ = o1.size_ + 1], IF grow THEN m5 ELSE n2,
            Ref(o1.data_, inserting_index))

\* PushBack(const Type& element) called as PushBack((*this)[index]): element is a
\* reference to slot index of the block data_ pointed to when the call began, and
\* is read when  data_[size_] = element  runs, after temp has been destroyed
PushBackAliased(o, mem, index) ==
    LET grow == o.size_ >= o.capacity_
        increased_capacity == IncreasedCapacity(o.capacity_)
        temp == ArrayPtrCtor(mem, increased_capacity)
        m1 == Fill(temp.mem, temp.ptr, 0, increased_capacity, DefaultValue)
        m2 == Copy(m1, o.data_, 0, o.size_, temp.ptr, 0)
        sw == ArrayPtrSwap(o.data_, temp.ptr)
        m3 == ArrayPtrDtor(m2, sw[2])
        o1 == IF grow THEN [o EXCEPT !.data_ = sw[1], !.capacity_ = increased_capacity]
              ELSE o
        m4 == IF grow THEN m3 ELSE mem
    IN  Res([o1 EXCEPT !.size_ = o1.size_ + 1],
            Assign(m4, o1.data_, o1.size_, o.data_, index), NoRet)

\* Insert(pos, const Type& element) called as Insert(pos, (*this)[index]): element
\* is read when  temp[inserting_index] = element  or  data_[inserting_index] =
\* element  runs
InsertAliased(o, mem, inserting_index, index) ==
    LET grow == o.size_ >= o.capacity_
        increased_capacity == IncreasedCapacity(o.capacity_)
        temp == ArrayPtrCtor(mem, increased_capacity)
        m1 == Fill(temp.mem, temp.ptr, 0, increased_capacity, DefaultValue)
        m2 == Copy(m1, o.data_, 0, inserting_index, temp.ptr, 0)
        m3 == Assign(m2, temp.ptr, inserting_index, o.data_, index)
        m4 == Copy(m3, o.data_, inserting_index, o.size_, temp.ptr, inserting_index + 1)
        sw == ArrayPtrSwap(o.data_, temp.ptr)
        m5 == ArrayPtrDtor(m4, sw[2])
        n1 == CopyBackward(mem, o.data_, inserting_index, o.size_, o.data_, o.size_ + 1)
        n2 == Assign(n1, o.data_, inserting_index, o.data_, index)
        o1 == IF grow THEN [o EXCEPT !.data_ = sw[1], !.capacity_ = increased_capacity]
              ELSE o
    IN  Res([o1 EXCEPT !.size_ = o1.size_ + 1], IF grow THEN m5 ELSE n2,
            Ref(o1.data_, inserting_index))

RECURSIVE StdEqual(_, _, _, _, _)
\* std::equal(p1 + first, p1 + last, p2 + first)
StdEqual(h, p1, first, last, p2) ==
    IF first >= last THEN TRUE
    ELSE IF LoadVal(Mem(h), p1, first) # LoadVal(Mem(h), p2, first) THEN FALSE
    ELSE StdEqual(h, p1, first + 1, last, p2)

RECURSIVE LexicographicalCompare(_, _, _, _, _, _, _)
\* std::lexicographical_compare(p1 + first1, p1 + last1, p2 + first2, p2 + last2)
LexicographicalCompare(h, p1, first1, last1, p2, first2, last2) ==
    IF first1 = last1 \/ first2 = last2 THEN first1 = last1 /\ first2 # last2
    ELSE IF LoadVal(Mem(h), p1, first1) < LoadVal(Mem(h), p2, first2) THEN TRUE
    ELSE IF LoadVal(Mem(h), p2, first2) < LoadVal(Mem(h), p1, first1) THEN FALSE
    ELSE LexicographicalCompare(h, p1, first1 + 1, last1, p2, first2 + 1, last2)

\* operator== with the bug of comparing the sizes only
OperatorEqSizeOnly(lhs, rhs, h) == lhs.size_ = rhs.size_

\* bool operator==(const SimpleVector& lhs, const SimpleVector& rhs)
OperatorEq(lhs, rhs, h) ==
    lhs.size_ = rhs.size_ /\ StdEqual(h, lhs.data_, 0, lhs.size_, rhs.data_)

\* bool operator!=
OperatorNe(lhs, rhs, h) == ~OperatorEq(lhs, rhs, h)

\* bool operator<
OperatorLt(lhs, rhs, h) ==
    LexicographicalCompare(h, lhs.data_, 0, lhs.size_, rhs.data_, 0, rhs.size_)

\* bool operator<=
OperatorLe(lhs, rhs, h) == OperatorLt(lhs, rhs, h) \/ OperatorEq(lhs, rhs, h)

\* bool operator>
OperatorGt(lhs, rhs, h) == OperatorLt(rhs, lhs, h)

\* bool operator>=
OperatorGe(lhs, rhs, h) == OperatorLt(rhs, lhs, h) \/ OperatorEq(rhs, lhs, h)

\* the elements a comparison of lhs and rhs may read are inside their blocks
ComparesInBounds(lhs, rhs, h) ==
    \A i \in 0..(lhs.size_ - 1) :
        i < rhs.size_ => Valid(Mem(h), lhs.data_, i) /\ Valid(Mem(h), rhs.data_, i)

BoolRet(b) == [kind |-> IF b THEN "true" ELSE "false", ptr |-> Null, idx |-> 0]

\* ---------------------------------------------------------------- program
\* The last completed call: operation, receiver v, argument vector w, index and
\* value arguments, the path taken and the value returned.
Tag(op, v, w, idx, val, path, ret) ==
    [op |-> op, v |-> v, w |-> w, idx |-> idx, val |-> val, path |-> path, ret |-> ret]

NoCall == Tag("none", "", "", 0, 0, "", NoRet)

\* What a program records of a call of one vector: all of it (Spec), or only
\* that there was one (SpecPair, whose claims are about the calls of two vectors).
Note(ctx, tag) == IF ctx.detail THEN tag ELSE Tag("call", "", "", 0, 0, "", NoRet)

GrowPath(o) == IF o.size_ >= o.capacity_ THEN "realloc" ELSE "inplace"

Lists(ctx) == UNION {[1..k -> ctx.vals] : k \in 0..ctx.cap}

\* The blocks that no vector points to once a call has returned: they can never
\* be read, written or freed again.  They leave the numbered heap and are counted.
Lost(vs, h) ==
    {b \in Blocks : /\ h[b].live
                    /\ \A o \in Objs : vs[o].data_ # b
                    /\ \A p \in Ptrs : ptr[p].raw_ptr_ # b}

Reachable(vs, h) == [b \in Blocks |-> IF b \in Lost(vs, h) THEN FreeBlock ELSE h[b]]

Init ==
    /\ vec = [o \in Objs |-> NoVector]
    /\ heap = EmptyHeap.h
    /\ leaked = 0
    /\ call = NoCall
    /\ ub = FALSE
    /\ ptr = [p \in Ptrs |-> NoArrayPtr]

\* The effect of a call with result r that leaves the vectors as vs.  A call that
\* accessed memory outside an allocated block is undefined: it aborts, or runs on
\* with those stores dropped.
Effect(vs, r, tag, ctx) ==
    /\ ptr' = ptr
    /\ r.mem.fits
    /\ r.o.capacity_ <= ctx.cap
    /\ leaked + Cardinality(Lost(vs, r.mem.h)) <= MaxLeaks
    /\ IF r.mem.ok
       THEN /\ vec' = vs
            /\ heap' = Reachable(vs, r.mem.h)
            /\ leaked' = leaked + Cardinality(Lost(vs, r.mem.h))
            /\ call' = tag
            /\ ub' = FALSE
       ELSE /\ ub' = TRUE
            /\ call' = [tag EXCEPT !.path = "ub"]
            /\ \/ vec' = vec /\ heap' = heap /\ leaked' = leaked
               \/ /\ vec' = vs
                  /\ heap' = Reachable(vs, r.mem.h)
                  /\ leaked' = leaked + Cardinality(Lost(vs, r.mem.h))

\* a call of v alone
Commit(v, r, tag, ctx) == Effect([vec EXCEPT ![v] = r.o], r, Note(ctx, tag), ctx)

\* a call of v that takes w
Commit2(v, w, r, tag, ctx) ==
    Effect([vec EXCEPT ![v] = r.o, ![w] = r.other], r, tag, ctx)

Dead(v) == ~ub /\ ~vec[v].alive
Live(v) == ~ub /\ vec[v].alive

Construct(v, ctx) ==
    /\ Dead(v)
    /\ Commit(v, Res(DefaultVector, Mem(heap), NoRet),
              Tag("SimpleVector", v, "", 0, 0, "", NoRet), ctx)

ConstructSize(v, ctx) ==
    /\ Dead(v)
    /\ \E size \in 0..ctx.cap :
          Commit(v, CtorSize(Mem(heap), size),
                 Tag("SimpleVector(size)", v, "", size, 0, "", NoRet), ctx)

ConstructSizeValue(v, ctx) ==
    /\ Dead(v)
    /\ \E size \in 0..ctx.cap, value \in ctx.vals :
          Commit(v, CtorSizeValue(Mem(heap), size, value),
                 Tag("SimpleVector(size,value)", v, "", size, value, "", NoRet), ctx)

ConstructInit(v, ctx) ==
    /\ Dead(v)
    /\ \E init \in Lists(ctx) :
          Commit(v, CtorInit(Mem(heap), init),
                 Tag("SimpleVector(init)", v, "", Len(init), 0, "", NoRet), ctx)

\* SimpleVector<Type> v{init} for one given list
ConstructList(v, init, ctx) ==
    /\ Dead(v)
    /\ Commit(v, CtorInit(Mem(heap), init),
              Tag("SimpleVector(init)", v, "", Len(init), 0, "", NoRet), ctx)

ConstructReserve(v, ctx) ==
    /\ Dead(v)
    /\ \E capacity_to_reserve \in 0..ctx.cap :
          Commit(v, CtorReserve(Mem(heap), capacity_to_reserve),
                 Tag("SimpleVector(Reserve)", v, "", capacity_to_reserve, 0, "", NoRet),
                 ctx)

Destroy(v, ctx) ==
    /\ Live(v)
    /\ Commit(v, Dtor(vec[v], Mem(heap)), Tag("~SimpleVector", v, "", 0, 0, "", NoRet), ctx)

CallAt(v, ctx) ==
    /\ Live(v)
    /\ \E index \in 0..ctx.cap :
          LET ret == At(vec[v], index)
          IN  Commit(v, Res(vec[v], Mem(heap), ret),
                     Tag("At", v, "", index, 0,
                         IF ret = OutOfRange THEN "throw" ELSE "return", ret), ctx)

CallIndex(v, ctx) ==
    /\ Live(v)
    /\ \E index \in 0..(vec[v].size_ - 1) :
          Commit(v, Res(vec[v], Mem(heap), Index(vec[v], index)),
                 Tag("operator[]", v, "", index, 0, "return", Index(vec[v], index)), ctx)

CallClear(v, ctx) ==
    /\ Live(v)
    /\ Commit(v, Clear(vec[v], Mem(heap)), Tag("Clear", v, "", 0, 0, "", NoRet), ctx)

CallPopBack(v, ctx) ==
    /\ Live(v)
    /\ vec[v].size_ > 0
    /\ Commit(v, PopBack(vec[v], Mem(heap)), Tag("PopBack", v, "", 0, 0, "", NoRet), ctx)

CallResize(v, ctx) ==
    /\ Live(v)
    /\ \E new_size \in 0..ctx.cap :
          Commit(v, Resize(vec[v], Mem(heap), new_size),
                 Tag("Resize", v, "", new_size, 0,
                     IF new_size > vec[v].capacity_ THEN "realloc" ELSE "inplace",
                     NoRet), ctx)

CallReserve(v, ctx) ==
    /\ Live(v)
    /\ \E reserved_capacity \in 0..ctx.cap :
          Commit(v, Reserve(vec[v], Mem(heap), reserved_capacity),
                 Tag("Reserve", v, "", reserved_capacity, 0,
                     IF reserved_capacity > vec[v].capacity_ THEN "realloc" ELSE "noop",
                     NoRet), ctx)

CallPushBack(v, ctx) ==
    /\ Live(v)
    /\ \E element \in ctx.vals :
          Commit(v, PushBack(vec[v], Mem(heap), element),
                 Tag("PushBack", v, "", 0, element, GrowPath(vec[v]), NoRet), ctx)

CallPushBackMove(v, ctx) ==
    /\ Live(v)
    /\ \E element \in ctx.vals :
          Commit(v, PushBackMove(vec[v], Mem(heap), element),
                 Tag("PushBack&&", v, "", 0, element, GrowPath(vec[v]), NoRet), ctx)

CallErase(v, ctx) ==
    /\ Live(v)
    /\ \E pos \in 0..(vec[v].size_ - 1) :
          LET r == Erase(vec[v], Mem(heap), pos)
          IN  Commit(v, r, Tag("Erase", v, "", pos, 0,
                               IF call.op \in {"Insert", "Insert&&"} /\ call.v = v
                                  /\ call.idx = pos /\ call.path # "ub"
                               THEN "afterInsert" ELSE "", r.ret), ctx)

CallInsert(v, ctx) ==
    /\ Live(v)
    /\ \E pos \in 0..vec[v].size_, element \in ctx.vals :
          LET r == Insert(vec[v], Mem(heap), pos, element)
          IN  Commit(v, r, Tag("Insert", v, "", pos, element, GrowPath(vec[v]), r.ret), ctx)

CallInsertMove(v, ctx) ==
    /\ Live(v)
    /\ \E pos \in 0..vec[v].size_, element \in ctx.vals :
          LET r == InsertMove(vec[v], Mem(heap), pos, element)
          IN  Commit(v, r, Tag("Insert&&", v, "", pos, element, GrowPath(vec[v]), r.ret),
                     ctx)

ConstructCopy(v, w, ctx) ==
    /\ Dead(v)
    /\ Live(w)
    /\ Commit2(v, w, CopyCtor(vec[w], Mem(heap)),
               Tag("SimpleVector(SimpleVector&)", v, w, 0, 0, "", NoRet), ctx)

ConstructMove(v, w, ctx) ==
    /\ Dead(v)
    /\ Live(w)
    /\ Commit2(v, w, MoveCtor(vec[w], Mem(heap)),
               Tag("SimpleVector(SimpleVector&&)", v, w, 0, 0, "", NoRet), ctx)

AssignCopy(v, w, ctx) ==
    /\ Live(v)
    /\ Live(w)
    /\ Commit2(v, w, CopyAssignVector(vec[v], vec[w], Mem(heap), v = w),
               Tag("operator=(SimpleVector&)", v, w, 0, 0,
                   IF v = w THEN "self" ELSE "", NoRet), ctx)

AssignMove(v, w, ctx) ==
    /\ Live(v)
    /\ Live(w)
    /\ Commit2(v, w, MoveAssignVector(vec[v], vec[w], Mem(heap), v = w),
               Tag("operator=(SimpleVector&&)", v, w, 0, 0,
                   IF v = w THEN "self" ELSE "", NoRet), ctx)

CallSwap(v, w, ctx) ==
    /\ Live(v)
    /\ Live(w)
    /\ Commit2(v, w, Swap(vec[v], vec[w], Mem(heap)),
               Tag("swap", v, w, 0, 0, IF v = w THEN "self" ELSE "", NoRet), ctx)

\* v.PushBack(v[index]); the tag records the value v[index] has when the call begins
CallPushBackAliased(v, ctx) ==
    /\ Live(v)
    /\ \E index \in 0..(vec[v].size_ - 1) :
          Commit(v, PushBackAliased(vec[v], Mem(heap), index),
                 Tag("PushBack(v[i])", v, v, index, LoadVal(Mem(heap), vec[v].data_, index),
                     GrowPath(vec[v]), NoRet), ctx)

\* v.Insert(v.begin() + pos, v[index]); the tag records pos, the value v[index] has
\* when the call begins and, as field arg, index
CallInsertAliased(v, ctx) ==
    /\ Live(v)
    /\ \E pos \in 0..vec[v].size_, index \in 0..(vec[v].size_ - 1) :
          LET r == InsertAliased(vec[v], Mem(heap), pos, index)
              tag == Tag("Insert(pos,v[i])", v, v, pos,
                         LoadVal(Mem(heap), vec[v].data_, index), GrowPath(vec[v]), r.ret)
          IN  Commit(v, r, [x \in DOMAIN tag \cup {"arg"} |->
                                IF x = "arg" THEN index ELSE tag[x]], ctx)

CompareOps == {"operator==", "operator!=", "operator<", "operator<=", "operator>",
               "operator>="}

\* the value of  v op w  for one of the six comparison operators
Compare(op, lhs, rhs, h) ==
    CASE op = "operator==" -> OperatorEq(lhs, rhs, h)
      [] op = "operator!=" -> OperatorNe(lhs, rhs, h)
      [] op = "operator<" -> OperatorLt(lhs, rhs, h)
      [] op = "operator<=" -> OperatorLe(lhs, rhs, h)
      [] op = "operator>" -> OperatorGt(lhs, rhs, h)
      [] op = "operator>=" -> OperatorGe(lhs, rhs, h)

CallCompare(v, w, ctx) ==
    /\ Live(v)
    /\ Live(w)
    /\ \E op \in CompareOps :
          LET mem == [Mem(heap) EXCEPT !.ok = ComparesInBounds(vec[v], vec[w], heap)]
              ret == IF mem.ok THEN BoolRet(Compare(op, vec[v], vec[w], heap)) ELSE NoRet
          IN  Commit2(v, w, [Res2(vec[v], vec[w], mem) EXCEPT !.ret = ret],
                      Tag(op, v, w, 0, 0, "", ret), ctx)

\* ------------------------------------------------- a program of ArrayPtrs
\* the blocks no ArrayPtr and no vector points to, once a call has left the
\* ArrayPtrs as ps
LostPtr(ps, h) ==
    {b \in Blocks : /\ h[b].live
                    /\ \A o \in Objs : vec[o].data_ # b
                    /\ \A p \in Ptrs : ps[p].raw_ptr_ # b}

\* The effect of an ArrayPtr call that leaves the ArrayPtrs as ps and the heap as
\* mem, and hands the block `out` to the caller (Null: none).  A block handed
\* out is the caller's: it leaves the numbered heap and is not counted as lost.
EffectPtr(ps, mem, out, tag) ==
    LET h1 == [b \in Blocks |-> IF b = out THEN FreeBlock ELSE mem.h[b]]
        lost == LostPtr(ps, h1)
        h2 == [b \in Blocks |-> IF b \in lost THEN FreeBlock ELSE h1[b]]
    IN  /\ vec' = vec
        /\ mem.fits
        /\ leaked + Cardinality(lost) <= MaxLeaks
        /\ IF mem.ok
           THEN /\ ptr' = ps
                /\ heap' = h2
                /\ leaked' = leaked + Cardinality(lost)
                /\ call' = tag
                /\ ub' = FALSE
           ELSE /\ ub' = TRUE
                /\ call' = [tag EXCEPT !.path = "ub"]
                /\ \/ ptr' = ptr /\ heap' = heap /\ leaked' = leaked
                   \/ ptr' = ps /\ heap' = h2 /\ leaked' = leaked + Cardinality(lost)

DeadPtr(p) == ~ub /\ ~ptr[p].alive
LivePtr(p) == ~ub /\ ptr[p].alive

\* ArrayPtr<Type> p;
PtrConstruct(p) ==
    /\ DeadPtr(p)
    /\ EffectPtr([ptr EXCEPT ![p] = [alive |-> TRUE, raw_ptr_ |-> Null]], Mem(heap), Null,
                 Tag("ArrayPtr", p, "", 0, 0, "", NoRet))

\* ArrayPtr<Type> p(size);
PtrConstructSize(p, ctx) ==
    /\ DeadPtr(p)
    /\ \E size \in 0..ctx.cap :
          LET d == ArrayPtrCtor(Mem(heap), size)
          IN  EffectPtr([ptr EXCEPT ![p] = [alive |-> TRUE, raw_ptr_ |-> d.ptr]], d.mem,
                        Null, Tag("ArrayPtr(size)", p, "", size, 0, "", NoRet))

\* ArrayPtr<Type> p(std::move(q));
PtrConstructMove(p, q) ==
    /\ DeadPtr(p)
    /\ LivePtr(q)
    /\ LET mp == ArrayPtrMove(Null, ptr[q].raw_ptr_)
       IN  EffectPtr([ptr EXCEPT ![p] = [alive |-> TRUE, raw_ptr_ |-> mp[1]],
                                 ![q].raw_ptr_ = mp[2]],
                     Mem(heap), Null, Tag("ArrayPtr(ArrayPtr&&)", p, q, 0, 0, "", NoRet))

\* p = std::move(q);  and, as its statements are written,  p = q;
PtrAssign(op, p, q) ==
    /\ LivePtr(p)
    /\ LivePtr(q)
    /\ LET mp == ArrayPtrMove(ptr[p].raw_ptr_, ptr[q].raw_ptr_)
           ps == IF p = q THEN ptr
                 ELSE [ptr EXCEPT ![p].raw_ptr_ = mp[1], ![q].raw_ptr_ = mp[2]]
       IN  EffectPtr(ps, Mem(heap), Null,
                     Tag(op, p, q, 0, 0, IF p = q THEN "self" ELSE "", NoRet))

PtrAssignMove(p, q) == PtrAssign("ArrayPtr::operator=(ArrayPtr&&)", p, q)

PtrAssignCopy(p, q) == PtrAssign("ArrayPtr::operator=(const ArrayPtr&)", p, q)

\* p.swap(q);
PtrSwap(p, q) ==
    /\ LivePtr(p)
    /\ LivePtr(q)
    /\ LET sw == ArrayPtrSwap(ptr[p].raw_ptr_, ptr[q].raw_ptr_)
           ps == [x \in Ptrs |-> IF x = q THEN [ptr[x] EXCEPT !.raw_ptr_ = sw[2]]
                                 ELSE IF x = p THEN [ptr[x] EXCEPT !.raw_ptr_ = sw[1]]
                                 ELSE ptr[x]]
       IN  EffectPtr(ps, Mem(heap), Null,
                     Tag("ArrayPtr::swap", p, q, 0, 0, IF p = q THEN "self" ELSE "", NoRet))

\* Type* raw = p.Release();
PtrRelease(p) ==
    /\ LivePtr(p)
    /\ LET rl == ArrayPtrRelease(ptr[p].raw_ptr_)
       IN  EffectPtr([ptr EXCEPT ![p].raw_ptr_ = rl[1]], Mem(heap), rl[2],
                     Tag("Release", p, "", 0, 0, "", Ref(rl[2], 0)))

\* p goes out of scope
PtrDestroy(p) ==
    /\ LivePtr(p)
    /\ EffectPtr([ptr EXCEPT ![p] = NoArrayPtr], ArrayPtrDtor(Mem(heap), ptr[p].raw_ptr_),
                 Null, Tag("~ArrayPtr", p, "", 0, 0, "", NoRet))

\* a program that uses one vector
One == [cap |-> MaxCap, vals |-> Values, detail |-> TRUE]

Next ==
    \/ Construct("a", One)
    \/ ConstructSize("a", One)
    \/ ConstructSizeValue("a", One)
    \/ ConstructInit("a", One)
    \/ ConstructReserve("a", One)
    \/ Destroy("a", One)
    \/ CallAt("a", One)
    \/ CallIndex("a", One)
    \/ CallClear("a", One)
    \/ CallPopBack("a", One)
    \/ CallResize("a", One)
    \/ CallReserve("a", One)
    \/ CallPushBack("a", One)
    \/ CallPushBackMove("a", One)
    \/ CallErase("a", One)
    \/ CallInsert("a", One)
    \/ CallInsertMove("a", One)

Spec == Init /\ [][Next]_vars

\* a program that uses two vectors, a and b, storing the default value and one other
\* value; the calls that take another vector are a's, with itself or b as argument
Pair == [cap |-> MaxPairCap, vals |-> {DefaultValue, 1}, detail |-> FALSE]

NextPair ==
    \/ \E v \in Objs :
          \/ Construct(v, Pair)
          \/ ConstructInit(v, Pair)
          \/ ConstructReserve(v, Pair)
          \/ Destroy(v, Pair)
          \/ CallPopBack(v, Pair)
          \/ CallPushBack(v, Pair)
    \/ \E w \in Objs :
          \/ ConstructCopy("a", w, Pair)
          \/ ConstructMove("a", w, Pair)
          \/ AssignCopy("a", w, Pair)
          \/ AssignMove("a", w, Pair)
          \/ CallSwap("a", w, Pair)

SpecPair == Init /\ [][NextPair]_vars

\* a program that uses two vectors and every operation that changes a vector,
\* storing only the default value: what a call does to size_, capacity_ and the
\* blocks does not depend on the values stored
All == [cap |-> MaxPairCap, vals |-> {DefaultValue}, detail |-> FALSE]

NextAll ==
    \/ \E v \in Objs :
          \/ Construct(v, All)
          \/ ConstructSize(v, All)
          \/ ConstructSizeValue(v, All)
          \/ ConstructInit(v, All)
          \/ ConstructReserve(v, All)
          \/ Destroy(v, All)
          \/ CallClear(v, All)
          \/ CallPopBack(v, All)
          \/ CallResize(v, All)
          \/ CallReserve(v, All)
          \/ CallPushBack(v, All)
          \/ CallPushBackMove(v, All)
          \/ CallErase(v, All)
          \/ CallInsert(v, All)
          \/ CallInsertMove(v, All)
    \/ \E w \in Objs :
          \/ ConstructCopy("a", w, All)
          \/ ConstructMove("a", w, All)
          \/ AssignCopy("a", w, All)
          \/ AssignMove("a", w, All)
          \/ CallSwap("a", w, All)

SpecAll == Init /\ [][NextAll]_vars

\* a program that builds two vectors of differing capacity and compares a with
\* each of them
NextCompare ==
    \/ \E v \in Objs :
          \/ ConstructInit(v, Pair)
          \/ ConstructReserve(v, Pair)
          \/ CallPopBack(v, Pair)
          \/ CallPushBack(v, Pair)
    \/ \E w \in Objs : CallCompare("a", w, Pair)

SpecCompare == Init /\ [][NextCompare]_vars

\* a program that builds the vector {1, 2, 3} and then appends 4s, inserts 0s and
\* erases elements, at any positions and in any order
ScenarioList == <<1, 2, 3>>

Appends == [cap |-> MaxScenarioCap, vals |-> {4}, detail |-> TRUE]
Inserts == [cap |-> MaxScenarioCap, vals |-> {0}, detail |-> TRUE]

NextScenario ==
    \/ ConstructList("a", ScenarioList, Appends)
    \/ CallPushBack("a", Appends)
    \/ CallErase("a", Appends)
    \/ CallInsert("a", Inserts)

SpecScenario == Init /\ [][NextScenario]_vars

NextArrayPtr ==
    \/ \E p \in Ptrs :
          \/ PtrConstruct(p)
          \/ PtrConstructSize(p, All)
          \/ PtrRelease(p)
          \/ PtrDestroy(p)
    \/ \E p \in Ptrs, q \in Ptrs :
          \/ PtrConstructMove(p, q)
          \/ PtrAssignMove(p, q)
          \/ PtrAssignCopy(p, q)
          \/ PtrSwap(p, q)

\* A program that uses two vectors and two ArrayPtrs of its own.  The two kinds of
\* object share nothing but the allocator (data_ is private and no constructor of
\* a vector takes an ArrayPtr), so the program uses one kind at a time.
NextOwners ==
    \/ (\A p \in Ptrs : ~ptr[p].alive) /\ NextAll
    \/ (\A o \in Objs : ~vec[o].alive) /\ NextArrayPtr

SpecOwners == Init /\ [][NextOwners]_vars

\* a program that builds one vector and passes its own elements to PushBack and
\* Insert
NextAliased ==
    \/ ConstructInit("a", One)
    \/ Destroy("a", One)
    \/ CallPopBack("a", One)
    \/ CallReserve("a", One)
    \/ CallPushBackAliased("a", One)
    \/ CallInsertAliased("a", One)

SpecAliased == Init /\ [][NextAliased]_vars

\* ----------------------------------------------------------------- claims
\* the elements [0, size_) of vector o in heap h
ElemsOf(o, h) == [i \in 1..o.size_ |-> LoadVal(Mem(h), o.data_, i - 1)]

Min(x, y) == IF x <= y THEN x ELSE y
Max(x, y) == IF x >= y THEN x ELSE y

PushBacks == {"PushBack", "PushBack&&"}

\* C1: in every state reachable from any constructor by any sequence of PushBack,
\* PopBack, Insert, Erase, Resize, Reserve, Clear, swap, copy- and move-assignment,
\* every vector satisfies 0 <= size <= capacity.
SizeWithinCapacity ==
    \A v \in Objs : 0 <= vec[v].size_ /\ vec[v].size_ <= vec[v].capacity_

\* a swap has just exchanged a partly filled vector with a full one
SizeWithinCapacityWitness ==
    /\ call.op = "swap" /\ call.v # call.w
    /\ vec["a"].alive /\ vec["b"].alive
    /\ 0 < vec["a"].size_ /\ vec["a"].size_ < vec["a"].capacity_
    /\ 0 < vec["b"].size_ /\ vec["b"].size_ = vec["b"].capacity_

\* C2: in every reachable state GetCapacity() equals the number of slots allocated
\* in the vector's buffer (0 slots iff the buffer is null); a vector constructed
\* from Reserve(n) has size 0, capacity n and a buffer of n slots.
CapacityIsAllocated ==
    \A v \in Objs :
        vec[v].alive =>
            /\ vec[v].capacity_ = Allocated(heap, vec[v].data_)
            /\ (vec[v].data_ = Null <=> vec[v].capacity_ = 0)

\* C3: PushBack(v), copy or move overload, increases the size by exactly 1, stores
\* v at index old size and leaves the elements [0, old size) as they were, whether
\* or not it reallocates.
PushBackAppends ==
    [][call'.op \in PushBacks =>
          LET v == call'.v
          IN  /\ vec'[v].size_ = vec[v].size_ + 1
              /\ ElemsOf(vec'[v], heap') = Append(ElemsOf(vec[v], heap), call'.val)]_vars

\* C4: PushBack changes the capacity only when size == capacity before the call,
\* and then to exactly max(1, 2 * old capacity), which at least doubles it and is
\* 1 from capacity 0.
PushBackGrowth ==
    [][call'.op \in PushBacks =>
          LET o == vec[call'.v]
              n == vec'[call'.v]
          IN  IF o.size_ = o.capacity_
              THEN /\ n.capacity_ = Max(1, 2 * o.capacity_)
                   /\ n.capacity_ >= 2 * o.capacity_
                   /\ (o.capacity_ = 0 => n.capacity_ = 1)
              ELSE n.capacity_ = o.capacity_]_vars

\* a PushBack has just reallocated a full vector of capacity 1, keeping its element
PushBackGrowthWitness ==
    /\ call.op \in PushBacks /\ call.path = "realloc"
    /\ vec["a"].capacity_ = 2 /\ vec["a"].size_ = 2

\* C5: At(i) fails with out_of_range for every i >= size, also for the reserved but
\* unused slots size <= i < capacity, and then changes nothing; for i < size it
\* returns the same element as operator[](i).
AtChecksSize ==
    [][call'.op = "At" =>
          LET o == vec[call'.v]
              i == call'.idx
          IN  IF i >= o.size_
              THEN /\ call'.ret = OutOfRange
                   /\ vec' = vec /\ heap' = heap /\ leaked' = leaked
              ELSE /\ call'.ret = Index(o, i)
                   /\ call'.ret.kind = "ref"
                   /\ Valid(Mem(heap), call'.ret.ptr, call'.ret.idx)
                   /\ vec' = vec /\ heap' = heap]_vars

\* At has just thrown for the index of a reserved but unused slot
AtChecksSizeWitness ==
    /\ call.op = "At" /\ call.path = "throw"
    /\ vec["a"].size_ > 0
    /\ call.idx >= vec["a"].size_ /\ call.idx < vec["a"].capacity_

MoveOps == {"SimpleVector(SimpleVector&&)", "operator=(SimpleVector&&)"}
CopyOps == {"SimpleVector(SimpleVector&)", "operator=(SimpleVector&)"}

\* C6: move-construction and move-assignment from a distinct source leave the
\* source with size 0, capacity 0 and a null buffer, and give the destination the
\* source's former size, capacity and elements.
MoveTransfers ==
    [][call'.op \in MoveOps /\ call'.v # call'.w =>
          LET src == vec[call'.w]
              dst == vec'[call'.v]
          IN  /\ vec'[call'.w].size_ = 0
              /\ vec'[call'.w].capacity_ = 0
              /\ vec'[call'.w].data_ = Null
              /\ dst.size_ = src.size_
              /\ dst.capacity_ = src.capacity_
              /\ dst.data_ = src.data_
              /\ ElemsOf(dst, heap') = ElemsOf(src, heap)]_vars

\* a move-assignment has just moved a partly filled vector into a
MoveTransfersWitness ==
    /\ call.op = "operator=(SimpleVector&&)" /\ call.v # call.w
    /\ vec["a"].size_ > 0 /\ vec["a"].size_ < vec["a"].capacity_
    /\ vec["b"].alive

\* C7: copy-construction and copy-assignment give the destination the source's
\* size and elements in a freshly allocated buffer whose capacity is the number
\* of elements copied; the source is unchanged, and a later call of one vector
\* does not change the other.
CopyIsDeep ==
    [][/\ call'.op \in CopyOps /\ call'.v # call'.w =>
             LET src == vec[call'.w]
                 dst == vec'[call'.v]
             IN  /\ dst.size_ = src.size_
                 /\ ElemsOf(dst, heap') = ElemsOf(src, heap)
                 /\ dst.capacity_ = src.size_
                 /\ Allocated(heap', dst.data_) = src.size_
                 /\ dst.data_ # Null => ~heap[dst.data_].live /\ dst.data_ # src.data_
                 /\ vec'[call'.w] = src
                 /\ src.data_ # Null => heap'[src.data_] = heap[src.data_]
       /\ call'.op = "call" =>
             \E v \in Objs : \A o \in Objs \ {v} :
                 /\ vec'[o] = vec[o]
                 /\ vec[o].data_ # Null => heap'[vec[o].data_] = heap[vec[o].data_]
       /\ vec'["a"].data_ # Null => vec'["a"].data_ # vec'["b"].data_]_vars

\* a copy-assignment has just copied a partly filled b into a
CopyIsDeepWitness ==
    /\ call.op = "operator=(SimpleVector&)" /\ call.v # call.w
    /\ vec["b"].size_ > 0 /\ vec["b"].size_ < vec["b"].capacity_
    /\ vec["a"].capacity_ = vec["b"].size_

\* C8: after Resize(n): size == n; the first min(old size, n) elements are
\* unchanged; every element in [old size, n) is the default value; the capacity
\* is n if n > old capacity and unchanged otherwise.
ResizeSetsSize ==
    [][call'.op = "Resize" =>
          LET o == vec[call'.v]
              r == vec'[call'.v]
              n == call'.idx
              keep == Min(o.size_, n)
          IN  /\ r.size_ = n
              /\ r.capacity_ = IF n > o.capacity_ THEN n ELSE o.capacity_
              /\ \A i \in 1..n :
                     ElemsOf(r, heap')[i] =
                         IF i <= keep THEN ElemsOf(o, heap)[i] ELSE DefaultValue]_vars

\* C9: Reserve(n) changes nothing when n <= capacity; when n > capacity the
\* capacity becomes exactly n; in both cases the size and the elements stay.
ReserveKeepsElements ==
    [][call'.op = "Reserve" =>
          LET o == vec[call'.v]
              r == vec'[call'.v]
              n == call'.idx
          IN  /\ r.size_ = o.size_
              /\ ElemsOf(r, heap') = ElemsOf(o, heap)
              /\ r.capacity_ = IF n > o.capacity_ THEN n ELSE o.capacity_
              /\ n <= o.capacity_ => vec' = vec /\ heap' = heap]_vars

\* a Reserve has just reallocated a vector that holds elements
ReserveKeepsElementsWitness ==
    /\ call.op = "Reserve" /\ call.path = "realloc"
    /\ vec["a"].size_ >= 2
    /\ vec["a"].capacity_ = call.idx

\* C10: for every reachable vector, every position p in [0, size] and every value
\* v, Insert of v at p followed by Erase at p restores the size and the elements,
\* on the reallocating and on the in-place path of Insert.
InsertEraseRoundTrip ==
    \A v \in Objs : \A p \in 0..vec[v].size_ : \A x \in Values :
        LET o == vec[v]
            grown == IF o.size_ >= o.capacity_
                     THEN IncreasedCapacity(o.capacity_) ELSE o.capacity_
            r1 == Insert(o, Mem(heap), p, x)
            r2 == Erase(r1.o, r1.mem, p)
            q1 == InsertMove(o, Mem(heap), p, x)
            q2 == Erase(q1.o, q1.mem, p)
        IN  (~ub /\ o.alive /\ r1.mem.fits /\ grown <= MaxCap) =>
                /\ r1.mem.ok /\ r2.mem.ok
                /\ r2.o.size_ = o.size_
                /\ ElemsOf(r2.o, r2.mem.h) = ElemsOf(o, heap)
                /\ q1.mem.ok /\ q2.mem.ok
                /\ q2.o.size_ = o.size_
                /\ ElemsOf(q2.o, q2.mem.h) = ElemsOf(o, heap)

\* sequence a is before sequence b in the lexicographic order
LexLess(a, b) ==
    \E k \in 1..Len(b) :
        /\ k <= Len(a) + 1
        /\ \A i \in 1..(k - 1) : a[i] = b[i]
        /\ (k = Len(a) + 1 \/ a[k] < b[k])

\* C11: operator== is true iff the two vectors have the same size and equal
\* elements at every index in [0, size), whatever their capacities and the slots
\* in [size, capacity) hold; operator< is the lexicographic order of the two
\* element sequences; a != b iff not (a == b), a <= b iff (a < b or a == b),
\* a > b iff b < a, a >= b iff (b < a or b == a).
ComparisonsFollowElements ==
    [][call'.op \in CompareOps =>
          LET a == ElemsOf(vec[call'.v], heap)
              b == ElemsOf(vec[call'.w], heap)
              op == call'.op
          IN  call'.ret = BoolRet(CASE op = "operator==" -> a = b
                                    [] op = "operator!=" -> ~(a = b)
                                    [] op = "operator<" -> LexLess(a, b)
                                    [] op = "operator<=" -> LexLess(a, b) \/ a = b
                                    [] op = "operator>" -> LexLess(b, a)
                                    [] op = "operator>=" -> LexLess(b, a) \/ b = a)]_vars

\* operator== has just found two vectors of different capacity equal
ComparisonsFollowElementsWitness ==
    /\ call.op = "operator==" /\ call.v # call.w
    /\ call.ret = BoolRet(TRUE)
    /\ vec["a"].size_ > 0
    /\ vec["a"].capacity_ # vec["b"].capacity_


\* the three steps of the scenario: PushBack(4) to {1,2,3} of capacity 3 gives
\* size 4, capacity cap and {1,2,3,4}; Erase(begin() + 1) then gives {1,3,4} and
\* size 3; Insert(begin(), 0) then gives {0,1,3,4} and size 4
ScenarioSteps(cap) ==
    LET o == vec["a"]
        n == vec'["a"]
        s == ElemsOf(o, heap)
        t == ElemsOf(n, heap')
    IN  /\ (/\ call'.op = "PushBack" /\ call'.val = 4
            /\ s = <<1, 2, 3>> /\ o.capacity_ = 3)
           => (n.size_ = 4 /\ n.capacity_ = cap /\ t = <<1, 2, 3, 4>>)
        /\ (/\ call'.op = "Erase" /\ call'.idx = 1
            /\ s = <<1, 2, 3, 4>> /\ o.capacity_ = cap)
           => (n.size_ = 3 /\ t = <<1, 3, 4>>)
        /\ (/\ call'.op = "Insert" /\ call'.idx = 0 /\ call'.val = 0
            /\ s = <<1, 3, 4>> /\ o.capacity_ = cap)
           => (n.size_ = 4 /\ t = <<0, 1, 3, 4>>)

\* C12 as stated: starting from the literal-list vector [1,2,3] (size 3, capacity
\* 3), PushBack(4) yields size 4, capacity 8 and contents [1,2,3,4]; then
\* Erase(begin()+1) yields [1,3,4] with size 3; then Insert(begin(), 0) yields
\* [0,1,3,4] with size 4.
ScenarioCapacityEight == [][ScenarioSteps(8)]_vars

\* C12: starting from the literal-list vector [1,2,3] (size 3, capacity 3),
\* PushBack(4) yields size 4, capacity 6 and contents [1,2,3,4]; then
\* Erase(begin()+1) yields [1,3,4] with size 3; then Insert(begin(), 0) yields
\* [0,1,3,4] with size 4.
ScenarioCapacitySix == [][ScenarioSteps(2 * Len(ScenarioList))]_vars

\* the last step of the scenario has just run
ScenarioCapacitySixWitness ==
    /\ call.op = "Insert" /\ call.idx = 0 /\ call.val = 0 /\ call.path = "inplace"
    /\ ElemsOf(vec["a"], heap) = <<0, 1, 3, 4>>
    /\ vec["a"].capacity_ = 2 * Len(ScenarioList)


\* the raw pointers held by the live vectors and ArrayPtrs, one per holder
Holders == {<<"vec", o>> : o \in Objs} \cup {<<"ptr", p>> : p \in Ptrs}
HeldBy(x) == IF x[1] = "vec" THEN vec[x[2]].data_ ELSE ptr[x[2]].raw_ptr_

RECURSIVE DestroyAll(_, _)
\* the heap after the destructors of the holders in set xs have run, in some order
DestroyAll(mem, xs) ==
    IF xs = {} THEN mem
    ELSE LET x == CHOOSE y \in xs : TRUE
         IN  DestroyAll(ArrayPtrDtor(mem, HeldBy(x)), xs \ {x})

\* C13: in every state reachable by ArrayPtr construction from a size,
\* move-construction, move-assignment, copy-assignment, swap, Release and
\* destruction, and by any sequence of SimpleVector operations, each live heap
\* block is held by at most one ArrayPtr, no ArrayPtr holds a block that has been
\* deallocated, and destroying the ArrayPtrs deallocates no block twice.
UniqueOwnership ==
    /\ \A x \in Holders, y \in Holders :
          (x # y /\ HeldBy(x) # Null) => HeldBy(x) # HeldBy(y)
    /\ \A x \in Holders : HeldBy(x) # Null => heap[HeldBy(x)].live
    /\ DestroyAll(Mem(heap), Holders).ok
    /\ call.op = "~ArrayPtr" => call.path # "ub"

\* a move-assignment has just handed q's block to p, which held one of its own
UniqueOwnershipWitness ==
    /\ call.op = "ArrayPtr::operator=(ArrayPtr&&)" /\ call.v = "p" /\ call.w = "q"
    /\ ptr["p"].raw_ptr_ # Null
    /\ ptr["q"].alive /\ ptr["q"].raw_ptr_ = Null
    /\ leaked > 0


CountCtors == {"SimpleVector(size)", "SimpleVector(size,value)"}

\* C14: for every n >= 0, constructing a vector with count n, with or without a
\* fill value, yields GetSize() == GetCapacity() == n with every element in [0, n)
\* equal to the fill value or to the default value; for n == 0 the buffer is null.
CountCtorFills ==
    [][call'.op \in CountCtors =>
          LET o == vec'[call'.v]
              n == call'.idx
              x == IF call'.op = "SimpleVector(size)" THEN DefaultValue ELSE call'.val
          IN  /\ o.alive
              /\ o.size_ = n /\ o.capacity_ = n
              /\ Allocated(heap', o.data_) = n
              /\ ElemsOf(o, heap') = [i \in 1..n |-> x]
              /\ (n = 0 => o.data_ = Null)]_vars

\* a vector of several elements has just been built from a count and a value that
\* is not the default value
CountCtorFillsWitness ==
    /\ call.op = "SimpleVector(size,value)" /\ call.val # DefaultValue
    /\ call.idx >= 2
    /\ vec["a"].size_ = call.idx


\* C15: Clear sets the size to 0 and leaves the capacity, the buffer (nothing is
\* allocated or deallocated) and the contents of every allocated slot unchanged.
ClearKeepsBuffer ==
    [][call'.op = "Clear" =>
          LET o == vec[call'.v]
              n == vec'[call'.v]
          IN  /\ n.size_ = 0
              /\ n.capacity_ = o.capacity_
              /\ n.data_ = o.data_
              /\ heap' = heap
              /\ leaked' = leaked
              /\ call'.path # "ub"]_vars

\* Clear has just emptied a vector whose slots still hold the values stored before
ClearKeepsBufferWitness ==
    /\ call.op = "Clear"
    /\ vec["a"].size_ = 0 /\ vec["a"].capacity_ >= 2
    /\ LoadVal(Mem(heap), vec["a"].data_, 0) = 1
    /\ LoadVal(Mem(heap), vec["a"].data_, 1) = 1


InsertOps == {"Insert", "Insert&&"}

\* C16: for every reachable vector with element sequence s, every position p in
\* [0, size] and every value v, Insert of v at p (copy or move overload) results
\* in s[0..p) ++ [v] ++ s[p..size), the size increased by exactly 1 and a returned
\* iterator denoting index p of the current buffer; the capacity becomes
\* max(1, 2 * old capacity) if size == capacity before the call and is unchanged
\* otherwise, on the reallocating and on the in-place path alike.
InsertShifts ==
    [][call'.op \in InsertOps =>
          LET o == vec[call'.v]
              n == vec'[call'.v]
              p == call'.idx
              s == ElemsOf(o, heap)
          IN  /\ call'.path # "ub"
              /\ n.size_ = o.size_ + 1
              /\ ElemsOf(n, heap') =
                     SubSeq(s, 1, p) \o <<call'.val>> \o SubSeq(s, p + 1, Len(s))
              /\ call'.ret = Ref(n.data_, p)
              /\ Valid(Mem(heap'), call'.ret.ptr, call'.ret.idx)
              /\ n.capacity_ = IF o.size_ = o.capacity_
                               THEN Max(1, 2 * o.capacity_) ELSE o.capacity_]_vars


\* C17: for every reachable vector with element sequence s and every position p
\* in [0, size), Erase at p results in s[0..p) ++ s[p+1..size), the size decreased
\* by exactly 1, the capacity and the buffer unchanged; it ends after
\* size - 1 - p element moves and returns an iterator denoting index p, which is
\* end() when the last element was erased.
EraseShifts ==
    [][call'.op = "Erase" =>
          LET o == vec[call'.v]
              n == vec'[call'.v]
              p == call'.idx
              s == ElemsOf(o, heap)
          IN  /\ call'.path # "ub"
              /\ n.size_ = o.size_ - 1
              /\ ElemsOf(n, heap') = SubSeq(s, 1, p) \o SubSeq(s, p + 2, Len(s))
              /\ n.capacity_ = o.capacity_
              /\ n.data_ = o.data_
              /\ Allocated(heap', n.data_) = Allocated(heap, o.data_)
              /\ EraseLoopMoves(p, o.size_ - 1) = o.size_ - 1 - p
              /\ call'.ret = Ref(n.data_, p)
              /\ (p = o.size_ - 1 => call'.ret = Ref(n.data_, n.size_))]_vars

\* Erase has just removed the first of three elements
EraseShiftsWitness ==
    /\ call.op = "Erase" /\ call.idx = 0
    /\ ElemsOf(vec["a"], heap) = <<0, 1>>
    /\ LoadVal(Mem(heap), vec["a"].data_, 2) = Unspecified


\* the operations C18 names; the actions call each of them within its documented
\* precondition only
CheckedOps == {"operator[]", "At", "PopBack", "Erase", "Insert", "Insert&&"}

\* C18: in every operation invoked within its documented preconditions
\* (operator[]/At with index < size, PopBack with size > 0, Erase with pos in
\* [begin, end), Insert with pos in [begin, end]) on any reachable vector, also one
\* built from Reserve(n), every slot the operation reads or writes is inside the
\* block allocated for the buffer it is accessed through, and that buffer is not
\* null.
AccessesInBounds ==
    [][call'.op \in CheckedOps =>
          /\ call'.path # "ub"
          /\ (call'.op \in {"operator[]", "At"} /\ call'.ret.kind = "ref")
                => Valid(Mem(heap'), call'.ret.ptr, call'.ret.idx)]_vars


\* C19: no heap block is leaked: no block that was allocated and not handed out
\* through Release() is left without an owner to deallocate it, so that once all
\* vectors and ArrayPtrs are destroyed every such block has been deallocated; in
\* particular move-assigning into an ArrayPtr or SimpleVector that holds a block
\* deallocates that block.
NoBlockLeaked ==
    /\ leaked = 0
    /\ ((\A o \in Objs : ~vec[o].alive) /\ (\A p \in Ptrs : ~ptr[p].alive))
          => \A b \in Blocks : ~heap[b].live


\* C20: Insert(pos, value) and PushBack(value) taking the value by const
\* reference insert the value the argument had at the moment of the call, also
\* when the argument refers to an element of the same vector (at any index before,
\* at or after pos), on the reallocating and on the in-place path.
AliasedArgumentInserted ==
    [][call'.op \in {"PushBack(v[i])", "Insert(pos,v[i])"} =>
          LET o == vec[call'.v]
              n == vec'[call'.v]
              s == ElemsOf(o, heap)
              p == IF call'.op = "PushBack(v[i])" THEN o.size_ ELSE call'.idx
          IN  /\ call'.path # "ub"
              /\ ElemsOf(n, heap') =
                     SubSeq(s, 1, p) \o <<call'.val>> \o SubSeq(s, p + 1, Len(s))]_vars


====
